---- MODULE Spec2Model ----
(***************************************************************************)
(* The detection-history store of BioWatch (src/data_manager.py) and the   *)
(* aggregation over it.  The history file is modelled at the level of the  *)
(* chunks json.dump writes, so that a torn or foreign file is a value the  *)
(* store can hold and json.load has something to reject.  A session calls  *)
(* the data manager's functions; a function that touches the file more     *)
(* than once (save_detection_results: read, truncate, write) takes one     *)
(* step per file operation.                                                *)
(*                                                                         *)
(* Confidence scores are integers in hundredths (0.9 is 90); a mean is an  *)
(* exact fraction <<numerator, denominator>> in lowest terms.              *)
(***************************************************************************)
EXTENDS Integers, Sequences, FiniteSets, TLC

VARIABLES
    store,      \* the history file: exists, perm (may be opened), content
    pc,         \* per session: where it is in the function it called
    op,         \* per session: the function called
    call,       \* per session: the arguments of the call
    results,    \* per session: the results argument of an append
    loaded,     \* per session: what load_detection_history returned
    history,    \* per session: the local list after the loop (lines 26-56)
    ret,        \* per session: the value returned
    exc,        \* per session: the exception that left the function
    atCall,     \* per session: the file as it was when the function was called
    writing,    \* per session: the document of the handle opened at line 59
    written,    \* whether anything but load's creation has written the file
    order,      \* the file operations of the appends in progress, in order
    files,      \* the export files of the data directory: path -> content
    now,        \* the clock, in seconds (datetime.now())
    cached      \* per session: st.session_state.detection_history

locals == <<call, results, loaded, history>>
vars ==
    <<store, pc, op, call, results, loaded, history, ret, exc, atCall,
      writing, written, order, files, now, cached>>

\* Bound of the model: events in the store.
MaxLog == 3
\* A detection run yields at most this many records (random.randint(1, 3)).
MaxDetections == 3
\* a write that fails leaves at most this many chunks in the file
MaxTorn == 1

Sessions == {1, 2}

-----------------------------------------------------------------------------
(* Python values: a list, a dict, None.                                    *)

EmptyDict == <<>>
PyList(s) == [py |-> "list", items |-> s, d |-> EmptyDict]
PyDict(d) == [py |-> "dict", items |-> <<>>, d |-> d]
PyNone == [py |-> "None", items |-> <<>>, d |-> EmptyDict]

\* Python truthiness of a value ("if not history").
Truthy(x) ==
    CASE x.py = "list" -> Len(x.items) > 0
      [] x.py = "dict" -> DOMAIN x.d # {}
      [] OTHER -> FALSE

\* dict.get(key, default)
DictGet(d, k, default) == IF k \in DOMAIN d THEN d[k] ELSE default

-----------------------------------------------------------------------------
(* Inputs: the records a detection run hands to the store, and the         *)
(* arguments (id, timestamp, image name, location) of one run.             *)

RedFoxFull ==
    [species |-> "red fox", confidence |-> 90, count |-> 2,
     scientific_name |-> "Vulpes vulpes"]
RedFoxBare == [species |-> "red fox", confidence |-> 70]
Coyote == [species |-> "coyote", confidence |-> 60, count |-> 1,
           detected_at |-> "2025-01-01 10:00:00"]
NoDetection ==
    [species |-> "No wildlife detected", confidence |-> 0, count |-> 0,
     detected_at |-> "2025-01-02 09:00:00"]
\* a record without its species key
Malformed == [confidence |-> 50, count |-> 1]

ResultRecords == {RedFoxFull, RedFoxBare, Coyote, NoDetection, Malformed}

YellowstoneNorth ==
    [latitude |-> "44.9631", longitude |-> "-110.5989",
     location_name |-> "Yellowstone North"]
\* a location dict that carries a name only
NameOnly == [location_name |-> "Yellowstone North"]

Calls ==
    { [detection_id |-> "d1", timestamp |-> "2025-01-01 10:00:00",
       image_name |-> "a.jpg", location |-> YellowstoneNorth],
      [detection_id |-> "d2", timestamp |-> "2025-01-02 09:00:00",
       image_name |-> "b.jpg", location |-> NameOnly] }

NoCall == [detection_id |-> "", timestamp |-> "", image_name |-> "",
           location |-> <<>>]

Batches == UNION {[1..n -> ResultRecords] : n \in 0..MaxDetections}

-----------------------------------------------------------------------------
(* save_detection_results, lines 26-56: one entry per result.              *)

OptionalFields ==
    {"scientific_name", "weight_range", "height_range",
     "conservation_status", "habitat", "description", "detected_at"}

\* result["species"] / result["confidence"] raise KeyError on a missing key
EntryRaises(result) ==
    ~ ({"species", "confidence"} \subseteq DOMAIN result)

\* What the code does not do: every optional field stored, null when the
\* result lacks it
EntryNullFilled(c, result) ==
    [k \in {"detection_id", "timestamp", "image_name", "species",
            "confidence", "count", "latitude", "longitude", "location_name"}
            \cup OptionalFields |->
        CASE k = "detection_id" -> c.detection_id
          [] k = "timestamp" -> c.timestamp
          [] k = "image_name" -> c.image_name
          [] k = "species" -> result.species
          [] k = "confidence" -> result.confidence
          [] k = "count" -> DictGet(result, "count", 1)
          [] k = "latitude" -> DictGet(c.location, "latitude", "null")
          [] k = "longitude" -> DictGet(c.location, "longitude", "null")
          [] k = "location_name" ->
                 DictGet(c.location, "location_name", "Unknown")
          [] OTHER -> DictGet(result, k, "null")]

\* lines 28-54: the nine fields of every entry, and each optional field
\* the result has
Entry(c, result) ==
    LET base == [detection_id |-> c.detection_id,
                 timestamp |-> c.timestamp,
                 image_name |-> c.image_name,
                 species |-> result.species,
                 confidence |-> result.confidence,
                 count |-> DictGet(result, "count", 1),
                 latitude |-> DictGet(c.location, "latitude", "null"),
                 longitude |-> DictGet(c.location, "longitude", "null"),
                 location_name |->
                     DictGet(c.location, "location_name", "Unknown")]
        opt == OptionalFields \cap DOMAIN result
    IN [k \in DOMAIN base \cup opt |->
            IF k \in opt THEN result[k] ELSE base[k]]

\* The entries the loop appends, in input order; the loop stops at the
\* first record that raises.
Entries(c, rs) == [i \in 1..Len(rs) |-> Entry(c, rs[i])]

BatchRaises(rs) == \E i \in 1..Len(rs) : EntryRaises(rs[i])

-----------------------------------------------------------------------------
(* The history file: the chunks json.dump wrote, or whatever else the file *)
(* holds.  A token carries the dict it encodes (v) or, for the remainder   *)
(* of an older, longer document, its length in bytes (n).                  *)

TokOpen == [t |-> "[", v |-> EmptyDict, n |-> 0]
TokClose == [t |-> "]", v |-> EmptyDict, n |-> 0]
TokObj(d) == [t |-> "obj", v |-> d, n |-> 0]
TokNull == [t |-> "null", v |-> EmptyDict, n |-> 0]
\* bytes that are not text in the file's encoding
TokBytes == [t |-> "bytes", v |-> EmptyDict, n |-> 0]
\* what is left of a longer document behind a shorter one written over it
TokTail(n) == [t |-> "tail", v |-> EmptyDict, n |-> n]

\* json.dump(value, f, indent=2): the chunks written
JsonDump(x) ==
    CASE x.py = "list" ->
            <<TokOpen>> \o [i \in 1..Len(x.items) |-> TokObj(x.items[i])]
                        \o <<TokClose>>
      [] x.py = "dict" -> <<TokObj(x.d)>>
      [] OTHER -> <<TokNull>>

\* json.load(f): the value, or the exception raised
JsonLoad(content) ==
    LET n == Len(content) IN
    IF \E i \in 1..n : content[i] = TokBytes
    THEN [err |-> "UnicodeDecodeError", val |-> PyNone]
    ELSE IF n = 1 /\ content[1].t = "obj"
    THEN [err |-> "", val |-> PyDict(content[1].v)]
    ELSE IF n = 1 /\ content[1] = TokNull
    THEN [err |-> "", val |-> PyNone]
    ELSE IF /\ n >= 2
            /\ content[1] = TokOpen
            /\ content[n] = TokClose
            /\ \A i \in 2..(n - 1) : content[i].t = "obj"
    THEN [err |-> "", val |-> PyList([i \in 1..(n - 2) |-> content[i + 1].v])]
    ELSE [err |-> "JSONDecodeError", val |-> PyNone]

(* The length in bytes of the text json.dump writes with indent=2: one     *)
(* line per key, strings in quotes, numbers and null bare.                 *)

RECURSIVE SumOver(_, _)
SumOver(f, S) ==
    IF S = {} THEN 0
    ELSE LET x == CHOOSE y \in S : TRUE IN f[x] + SumOver(f, S \ {x})

ValueLen(k, v) ==
    CASE k = "count" -> IF v < 10 THEN 1 ELSE 2
      [] k = "confidence" -> IF v % 10 = 0 THEN 3 ELSE 4
      [] k \in {"latitude", "longitude"} -> Len(v)
      [] OTHER -> Len(v) + 2

ObjLen(d, depth) ==
    IF DOMAIN d = {} THEN 2
    ELSE LET line == [k \in DOMAIN d |->
                         1 + 2 * (depth + 1) + Len(k) + 4 + ValueLen(k, d[k])]
         IN 1 + SumOver(line, DOMAIN d) + (Cardinality(DOMAIN d) - 1)
              + (1 + 2 * depth) + 1

TokLen(content, i) ==
    LET tok == content[i]
        prev == IF i > 1 THEN content[i - 1].t ELSE ""
    IN CASE tok.t = "[" -> 1
         [] tok.t = "obj" ->
              IF prev = "[" THEN 3 + ObjLen(tok.v, 1)
              ELSE IF prev = "obj" THEN 4 + ObjLen(tok.v, 1)
              ELSE ObjLen(tok.v, 0)
         [] tok.t = "]" -> IF prev = "obj" THEN 2 ELSE 1
         [] tok.t = "null" -> 4
         [] tok.t = "bytes" -> 1
         [] OTHER -> tok.n

ByteLen(content) ==
    SumOver([i \in 1..Len(content) |-> TokLen(content, i)], 1..Len(content))

Absent == [exists |-> FALSE, perm |-> TRUE, content |-> <<>>]
File(content) == [exists |-> TRUE, perm |-> TRUE, content |-> content]

\* open(HISTORY_FILE, 'w'): the file exists and is empty, or the open fails
OpenTruncate(st) == [st EXCEPT !.exists = TRUE, !.content = <<>>]

\* A complete document written from offset 0 by a handle opened earlier:
\* the bytes of a longer document written meanwhile stay behind it.
Overlay(w, cur) ==
    IF ByteLen(cur) > ByteLen(w)
    THEN w \o <<TokTail(ByteLen(cur) - ByteLen(w))>>
    ELSE w

\* The chunks a failing json.dump leaves in the file: a proper prefix of the
\* document.
TornPrefixes(doc) ==
    {SubSeq(doc, 1, k) : k \in 0..(IF Len(doc) - 1 < MaxTorn
                                    THEN Len(doc) - 1 ELSE MaxTorn)}

\* with open(HISTORY_FILE, 'w') as f: json.dump(x, f), in one step: the
\* states the file can be left in, each with the exception raised ("" for
\* none).  The open fails and leaves the file alone, or the write stops
\* after some of the chunks.
WriteOutcomes(st, x) ==
    IF st.exists /\ ~st.perm
    THEN {[store |-> st, err |-> "IOError"]}
    ELSE {[store |-> [OpenTruncate(st) EXCEPT !.content = JsonDump(x)],
           err |-> ""]}
         \cup {[store |-> st, err |-> "IOError"]}
         \cup {[store |-> [OpenTruncate(st) EXCEPT !.content = t],
                 err |-> "IOError"] : t \in TornPrefixes(JsonDump(x))}

-----------------------------------------------------------------------------
(* load_detection_history                                                  *)

\* except (json.JSONDecodeError, IOError)
CaughtByLoad == {"JSONDecodeError", "IOError"}

\* What the code does not do: [] returned without creating the file
LoadAbsentNoCreate(st) == {[store |-> st, err |-> "", val |-> PyList(<<>>)]}

\* lines 69-73: an absent file is created as an empty list, outside the try
\* block, and [] is returned.
LoadAbsent(st) ==
    {[store |-> w.store, err |-> w.err,
      val |-> IF w.err = "" THEN PyList(<<>>) ELSE PyNone] :
        w \in WriteOutcomes(st, PyList(<<>>))}

\* What the code does not do: a file that does not load rewritten as an
\* empty list
LoadExistingRepairs(st) ==
    IF st.perm /\ JsonLoad(st.content).err \in CaughtByLoad
    THEN {[store |-> [st EXCEPT !.content = JsonDump(PyList(<<>>))],
           err |-> "", val |-> PyList(<<>>)]}
    ELSE IF ~st.perm
    THEN {[store |-> st, err |-> "", val |-> PyList(<<>>)]}
    ELSE {[store |-> st, err |-> JsonLoad(st.content).err,
           val |-> JsonLoad(st.content).val]}

\* lines 75-80: whatever json.load returns is returned; the two exceptions
\* named give [].
LoadExisting(st) ==
    IF ~st.perm
    THEN {[store |-> st, err |-> "", val |-> PyList(<<>>)]}
    ELSE LET r == JsonLoad(st.content) IN
         IF r.err \in CaughtByLoad
         THEN {[store |-> st, err |-> "", val |-> PyList(<<>>)]}
         ELSE {[store |-> st, err |-> r.err, val |-> r.val]}

\* What the code does not do: the file written as an empty list whether it
\* exists or not
LoadStartsAfresh(st) == LoadAbsent(st)

\* The outcomes of one call: the file afterwards, the exception that left
\* the function ("" for none) and the value returned.
LoadOutcomes(st) == IF ~st.exists THEN LoadAbsent(st) ELSE LoadExisting(st)

-----------------------------------------------------------------------------
(* get_species_summary: groupby("species") with sum, mean and count.       *)

PyFrame(rows) == [py |-> "DataFrame", items |-> rows, d |-> EmptyDict]

\* The order of Python strings, for the species of the model.
SpeciesOrder == <<"No wildlife detected", "coyote", "red fox">>
Rank(s) == CHOOSE i \in 1..Len(SpeciesOrder) : SpeciesOrder[i] = s

\* groupby sorts the group keys.
RECURSIVE SortedKeys(_)
SortedKeys(S) ==
    IF S = {} THEN <<>>
    ELSE LET m == CHOOSE x \in S : \A y \in S : Rank(x) <= Rank(y)
         IN <<m>> \o SortedKeys(S \ {m})

RECURSIVE GCD(_, _)
GCD(a, b) == IF b = 0 THEN a ELSE GCD(b, a % b)

\* a / b as a fraction in lowest terms
Fraction(a, b) == LET g == GCD(a, b) IN <<a \div g, b \div g>>

RECURSIVE SumCol(_, _)
SumCol(rows, col) ==
    IF rows = <<>> THEN 0 ELSE Head(rows)[col] + SumCol(Tail(rows), col)

RECURSIVE SumProd(_, _, _)
SumProd(rows, a, b) ==
    IF rows = <<>> THEN 0
    ELSE Head(rows)[a] * Head(rows)[b] + SumProd(Tail(rows), a, b)

\* ("count", "sum")
SpeciesCount(rows) == SumCol(rows, "count")

\* What the code does not do: the mean weighted by count
SpeciesAvgWeighted(rows) ==
    IF SumCol(rows, "count") = 0 THEN <<0, 1>>
    ELSE Fraction(SumProd(rows, "confidence", "count"), SumCol(rows, "count"))

\* What the code does not do: the confidence of the group's last event
SpeciesLastConfidence(rows) == Fraction(rows[Len(rows)].confidence, 1)

\* ("confidence", "mean")
SpeciesAvgConfidence(rows) == Fraction(SumCol(rows, "confidence"), Len(rows))

\* What the code does not do: the number of distinct detection ids
SpeciesDetectionsDistinct(rows) ==
    Cardinality({rows[i].detection_id : i \in 1..Len(rows)})

\* ("detection_id", "count"): the rows whose detection_id is not null
SpeciesDetections(rows) ==
    Len(SelectSeq(rows, LAMBDA e : e.detection_id # "null"))

SpeciesSummary(h) ==
    LET keys == SortedKeys({h[i].species : i \in 1..Len(h)})
        group(s) == SelectSeq(h, LAMBDA e : e.species = s)
    IN [j \in 1..Len(keys) |->
           [species |-> keys[j],
            count |-> SpeciesCount(group(keys[j])),
            avg_confidence |-> SpeciesAvgConfidence(group(keys[j])),
            detections |-> SpeciesDetections(group(keys[j]))]]

\* The Reports page, app.py lines 366-370: the same grouping of the
\* session's history, the sum named total_count.
ReportSpeciesSummary(h) ==
    LET keys == SortedKeys({h[i].species : i \in 1..Len(h)})
        group(s) == SelectSeq(h, LAMBDA e : e.species = s)
    IN [j \in 1..Len(keys) |->
           [species |-> keys[j],
            total_count |-> SpeciesCount(group(keys[j])),
            avg_confidence |-> SpeciesAvgConfidence(group(keys[j])),
            detections |-> SpeciesDetections(group(keys[j]))]]

-----------------------------------------------------------------------------
(* pandas: the frame built from the history, groupby over its columns.     *)
(* None and NaN are the string "null"; coordinates are strings too.        *)

\* The order of Python strings, for the location names of the model.
NameOrder == <<"Unknown", "Yellowstone Central", "Yellowstone North">>
\* The order of the floats, for the coordinates of the model.
CoordOrder == <<"-110.5989", "-110.5885", "44.4280", "44.9631">>

RankIn(sorted, x) == CHOOSE i \in 1..Len(sorted) : sorted[i] = x

\* groupby sorts the group keys (sort=True): the elements of S by rank
RECURSIVE SortedBy(_, _)
SortedBy(S, rank) ==
    IF S = {} THEN <<>>
    ELSE LET m == CHOOSE x \in S : \A y \in S : rank[x] <= rank[y]
         IN <<m>> \o SortedBy(S \ {m}, rank)

\* What the code does not do: the rows of a group counted, equal or not
CountRows(rows, col) == Len(rows)

\* What the code does not do: the no-detection label left out of the
\* distinct values
NuniqueDetected(rows, col) ==
    Cardinality({rows[i][col] : i \in 1..Len(rows)}
                    \ {"null", "No wildlife detected"})

\* (col, "nunique"): the distinct values of a column that are not null
Nunique(rows, col) ==
    Cardinality({rows[i][col] : i \in 1..Len(rows)} \ {"null"})

\* groupby drops the rows whose key has a missing value (dropna=True)
GroupByKeeps(k) == \A i \in 1..Len(k) : k[i] # "null"

-----------------------------------------------------------------------------
(* get_location_summary, and Location Analysis of the Reports page.        *)

\* groupby(["location_name", "latitude", "longitude"]), line 124
LocationKey(e) == <<e.location_name, e.latitude, e.longitude>>

LocationRank(k) ==
    (RankIn(NameOrder, k[1]) * Len(CoordOrder) + RankIn(CoordOrder, k[2]))
        * Len(CoordOrder) + RankIn(CoordOrder, k[3])

\* lines 121-127
LocationSummary(h) ==
    LET K == {k \in {LocationKey(h[i]) : i \in 1..Len(h)} : GroupByKeeps(k)}
        keys == SortedBy(K, [k \in K |-> LocationRank(k)])
        group(k) == SelectSeq(h, LAMBDA e : LocationKey(e) = k)
    IN [j \in 1..Len(keys) |->
           [location_name |-> keys[j][1],
            latitude |-> keys[j][2],
            longitude |-> keys[j][3],
            species_count |-> Nunique(group(keys[j]), "species"),
            total_detections |-> SumCol(group(keys[j]), "count")]]

\* groupby(["latitude", "longitude"]), app.py line 402
CoordKey(e) == <<e.latitude, e.longitude>>

CoordRank(k) ==
    RankIn(CoordOrder, k[1]) * Len(CoordOrder) + RankIn(CoordOrder, k[2])

\* app.py lines 402-406
ReportLocationAnalysis(h) ==
    LET K == {k \in {CoordKey(h[i]) : i \in 1..Len(h)} : GroupByKeeps(k)}
        keys == SortedBy(K, [k \in K |-> CoordRank(k)])
        group(k) == SelectSeq(h, LAMBDA e : CoordKey(e) = k)
    IN [j \in 1..Len(keys) |->
           [latitude |-> keys[j][1],
            longitude |-> keys[j][2],
            unique_species |-> Nunique(group(keys[j]), "species"),
            total_detections |-> SumCol(group(keys[j]), "count"),
            images_analyzed |-> Nunique(group(keys[j]), "image_name")]]

-----------------------------------------------------------------------------
(* Detection Timeline of the Reports page.                                 *)

\* pd.to_datetime of the "%Y-%m-%d %H:%M:%S" strings of the model: the date
\* as the number yyyymmdd, the time of day as the number hhmmss.
ToDatetime(ts) ==
    CASE ts = "2025-01-01 10:00:00" -> [date |-> 20250101, time |-> 100000]
      [] ts = "2025-01-01 23:59:59" -> [date |-> 20250101, time |-> 235959]
      [] ts = "2025-01-02 00:00:00" -> [date |-> 20250102, time |-> 0]
      [] ts = "2025-01-02 09:00:00" -> [date |-> 20250102, time |-> 90000]
      [] ts = "2025-01-15 00:00:00" -> [date |-> 20250115, time |-> 0]
      [] ts = "2025-01-15 10:00:00" -> [date |-> 20250115, time |-> 100000]
      [] ts = "2025-02-01 08:00:00" -> [date |-> 20250201, time |-> 80000]

\* What the code does not do: the groups keyed by the date and hour of the
\* timestamp (yyyymmddhh)
TimestampOf(e) ==
    ToDatetime(e.timestamp).date * 100 + (ToDatetime(e.timestamp).time \div 10000)

\* history_df["datetime"].dt.date, app.py line 445
DateOf(e) == ToDatetime(e.timestamp).date

\* What the code does not do: the groups in the order their dates first
\* appear in the history (sort=False)
RECURSIVE InOrderOfAppearance(_, _)
InOrderOfAppearance(h, seen) ==
    IF h = <<>> THEN <<>>
    ELSE IF DateOf(Head(h)) \in seen THEN InOrderOfAppearance(Tail(h), seen)
    ELSE <<DateOf(Head(h))>>
            \o InOrderOfAppearance(Tail(h), seen \cup {DateOf(Head(h))})
DatesAsStored(h) == InOrderOfAppearance(h, {})

\* groupby("date"): the dates of the history, ascending
TimelineDates(h) ==
    LET D == {DateOf(h[i]) : i \in 1..Len(h)}
    IN SortedBy(D, [d \in D |-> d])

\* app.py lines 442-450
ReportTimeline(h) ==
    LET dates == TimelineDates(h)
        group(d) == SelectSeq(h, LAMBDA e : DateOf(e) = d)
    IN [j \in 1..Len(dates) |->
           [date |-> dates[j],
            species_count |-> Nunique(group(dates[j]), "species"),
            total_detections |-> SumCol(group(dates[j]), "count"),
            images |-> Nunique(group(dates[j]), "image_name")]]

-----------------------------------------------------------------------------
(* export_detection_data                                                   *)

\* The start_date / end_date arguments: None, a datetime.date, a datetime.
NoDate == [py |-> "None", date |-> 0, time |-> 0]
PyDate(d) == [py |-> "date", date |-> d, time |-> 0]
PyDatetime(d, t) == [py |-> "datetime", date |-> d, time |-> t]

\* pd.Timestamp(x): a date becomes the first instant of its day
PdTimestamp(x) ==
    [date |-> x.date, time |-> IF x.py = "date" THEN 0 ELSE x.time]

\* a >= b on timestamps
AtOrAfter(a, b) == a.date > b.date \/ (a.date = b.date /\ a.time >= b.time)

\* pd.DataFrame(history), line 149: one column per key of any event; an
\* event without the key has a missing value there.
Columns(h) == UNION {DOMAIN h[i] : i \in 1..Len(h)}
DataFrame(h) ==
    [i \in 1..Len(h) |->
        [k \in Columns(h) |-> IF k \in DOMAIN h[i] THEN h[i][k] ELSE "null"]]

\* lines 155-156
KeepsFrom(row, start) ==
    start.py # "None" =>
        AtOrAfter(ToDatetime(row.timestamp), PdTimestamp(start))

\* lines 157-158
KeepsUntil(row, end) ==
    end.py # "None" => AtOrAfter(PdTimestamp(end), ToDatetime(row.timestamp))

\* lines 149-161: the rows of the frame within the bounds, in stored order
ExportRows(h, a) ==
    SelectSeq(DataFrame(h),
              LAMBDA row : KeepsFrom(row, a.start_date)
                             /\ KeepsUntil(row, a.end_date))

\* lines 164-173: detection_export_<%Y%m%d_%H%M%S>.<csv|json>, the time t
\* to the second
ExportPath(a, t) == [stamp |-> t, ext |-> a.format]

\* lines 170 and 174: to_csv writes the header and one line per row,
\* to_json one object per row; a missing value is an empty field or null.
ExportContent(a, h) ==
    [format |-> a.format,
     header |-> IF a.format = "csv" THEN Columns(h) ELSE {},
     rows |-> ExportRows(h, a)]

\* What the code does not do: a file written whatever the history
ExportAlways(h) == FALSE

\* lines 145-146: "if not history: return None"; the filtered frame is not
\* looked at
ExportReturnsNone(h) == ~Truthy(h)

PyStr(x) == [py |-> "str", items |-> <<x>>, d |-> EmptyDict]

-----------------------------------------------------------------------------
(* The detector, src/models.py: the species table and detect_species.      *)

\* SPECIES_CLASSES = list(SPECIES_DATABASE.keys()), line 146: the keys in the
\* order of the table
SPECIES_CLASSES ==
    << "white-tailed deer", "red fox", "gray wolf",
       "black bear", "eastern cottontail rabbit", "eastern gray squirrel",
       "raccoon", "coyote", "mountain lion",
       "bobcat", "great horned owl", "bald eagle",
       "red-tailed hawk" >>

\* SPECIES_DATABASE, lines 13-143
SPECIES_DATABASE ==
    [s \in {SPECIES_CLASSES[i] : i \in 1..Len(SPECIES_CLASSES)} |->
        CASE s = "white-tailed deer" ->
               [scientific_name |-> "Odocoileus virginianus",
                weight_range |-> "90-310 lbs (41-140 kg)",
                height_range |-> "3-3.5 ft (0.9-1.1 m)",
                habitat |-> "Forests, grasslands, and farmlands",
                conservation_status |-> "Least Concern",
                diet |-> "Herbivore - leaves, twigs, fruits, nuts",
                lifespan |-> "4-5 years in wild",
                description |->
                    "Common deer species with white underside to tail, raised when alarmed"]
          [] s = "red fox" ->
               [scientific_name |-> "Vulpes vulpes",
                weight_range |-> "8-15 lbs (3.5-7 kg)",
                height_range |-> "1-1.3 ft (30-40 cm)",
                habitat |-> "Forests, grasslands, mountains, deserts",
                conservation_status |-> "Least Concern",
                diet |-> "Omnivore - small mammals, birds, fruits, insects",
                lifespan |-> "2-5 years in wild",
                description |->
                    "Medium-sized fox with reddish fur and bushy tail with white tip"]
          [] s = "gray wolf" ->
               [scientific_name |-> "Canis lupus",
                weight_range |-> "60-145 lbs (27-65 kg)",
                height_range |-> "2.3-2.8 ft (70-85 cm)",
                habitat |-> "Forests, mountains, tundra",
                conservation_status |-> "Least Concern (globally)",
                diet |-> "Carnivore - large hoofed mammals, smaller animals",
                lifespan |-> "6-8 years in wild",
                description |->
                    "Largest wild canine species, often travel in packs"]
          [] s = "black bear" ->
               [scientific_name |-> "Ursus americanus",
                weight_range |-> "126-550 lbs (57-250 kg)",
                height_range |-> "2.3-3 ft (70-90 cm) at shoulder",
                habitat |-> "Forests, swamps, mountains",
                conservation_status |-> "Least Concern",
                diet |->
                    "Omnivore - berries, nuts, insects, fish, small mammals",
                lifespan |-> "18-25 years in wild",
                description |->
                    "Medium-sized bear with black or brown fur, excellent tree climbers"]
          [] s = "eastern cottontail rabbit" ->
               [scientific_name |-> "Sylvilagus floridanus",
                weight_range |-> "2-4 lbs (0.9-1.8 kg)",
                height_range |-> "5-7 inches (12-18 cm)",
                habitat |-> "Meadows, farmlands, suburban areas",
                conservation_status |-> "Least Concern",
                diet |-> "Herbivore - grasses, vegetables, fruits",
                lifespan |-> "2-3 years in wild",
                description |->
                    "Small rabbit with grayish-brown fur and white tail underside"]
          [] s = "eastern gray squirrel" ->
               [scientific_name |-> "Sciurus carolinensis",
                weight_range |-> "14-21 oz (400-600 g)",
                height_range |-> "7-10 inches (18-25 cm)",
                habitat |-> "Deciduous forests, urban parks",
                conservation_status |-> "Least Concern",
                diet |-> "Omnivore - nuts, seeds, fruits, insects",
                lifespan |-> "6-12 years in wild",
                description |->
                    "Common tree squirrel with gray fur and bushy tail"]
          [] s = "raccoon" ->
               [scientific_name |-> "Procyon lotor",
                weight_range |-> "10-30 lbs (4.5-13.5 kg)",
                height_range |-> "9-12 inches (23-30 cm)",
                habitat |-> "Forests, marshes, urban areas",
                conservation_status |-> "Least Concern",
                diet |-> "Omnivore - fruits, nuts, insects, small animals",
                lifespan |-> "2-3 years in wild",
                description |->
                    "Medium-sized mammal with distinctive black mask and ringed tail"]
          [] s = "coyote" ->
               [scientific_name |-> "Canis latrans",
                weight_range |-> "20-50 lbs (9-23 kg)",
                height_range |-> "1.5-2 ft (45-60 cm)",
                habitat |-> "Grasslands, forests, urban areas",
                conservation_status |-> "Least Concern",
                diet |-> "Carnivore - small mammals, birds, fruits",
                lifespan |-> "10-14 years in wild",
                description |->
                    "Medium-sized canine with grayish-brown fur, adaptable to various environments"]
          [] s = "mountain lion" ->
               [scientific_name |-> "Puma concolor",
                weight_range |-> "75-175 lbs (34-80 kg)",
                height_range |-> "2-2.5 ft (60-75 cm)",
                habitat |-> "Mountains, forests, deserts",
                conservation_status |-> "Least Concern",
                diet |-> "Carnivore - deer, livestock, smaller mammals",
                lifespan |-> "8-13 years in wild",
                description |->
                    "Large cat with tawny coat, also known as cougar or puma"]
          [] s = "bobcat" ->
               [scientific_name |-> "Lynx rufus",
                weight_range |-> "15-35 lbs (7-16 kg)",
                height_range |-> "1.5-2 ft (45-60 cm)",
                habitat |-> "Forests, swamps, deserts",
                conservation_status |-> "Least Concern",
                diet |-> "Carnivore - rabbits, rodents, birds",
                lifespan |-> "7-10 years in wild",
                description |->
                    "Medium-sized cat with spotted coat and short bobbed tail"]
          [] s = "great horned owl" ->
               [scientific_name |-> "Bubo virginianus",
                weight_range |-> "2-5.5 lbs (0.9-2.5 kg)",
                height_range |-> "18-25 inches (46-63 cm)",
                habitat |-> "Forests, deserts, urban areas",
                conservation_status |-> "Least Concern",
                diet |-> "Carnivore - small mammals, birds",
                lifespan |-> "13-15 years in wild",
                description |->
                    "Large owl with prominent ear tufts, powerful predator"]
          [] s = "bald eagle" ->
               [scientific_name |-> "Haliaeetus leucocephalus",
                weight_range |-> "6.5-14 lbs (3-6.3 kg)",
                height_range |-> "2.3-3.3 ft (70-100 cm)",
                habitat |-> "Near bodies of water",
                conservation_status |-> "Least Concern",
                diet |-> "Carnivore - fish, small mammals, birds",
                lifespan |-> "20-30 years in wild",
                description |->
                    "Large bird of prey with white head and tail, national symbol of USA"]
          [] s = "red-tailed hawk" ->
               [scientific_name |-> "Buteo jamaicensis",
                weight_range |-> "1.5-3.5 lbs (0.7-1.6 kg)",
                height_range |-> "18-26 inches (45-65 cm)",
                habitat |-> "Open areas, woodlands",
                conservation_status |-> "Least Concern",
                diet |-> "Carnivore - small mammals, birds, reptiles",
                lifespan |-> "10-15 years in wild",
                description |->
                    "Common hawk with brick-red tail, often seen soaring"]]

\* CONFIDENCE_THRESHOLD, line 10, in hundredths
CONFIDENCE_THRESHOLD == 50
\* the upper end of random.uniform(CONFIDENCE_THRESHOLD, 0.95), line 209
ConfidenceCeiling == 95

\* Bounds of the model: the detector draws from the first MaxClasses
\* species of the table; where its results are stored in the history file,
\* from the first MaxStoredClasses.
MaxClasses == 3
MaxStoredClasses == 2
FirstClasses(n) ==
    SubSeq(SPECIES_CLASSES, 1,
           IF n < Len(SPECIES_CLASSES) THEN n ELSE Len(SPECIES_CLASSES))

\* random.uniform(a, b): the ends of the interval stand for its values
Uniform(a, b) == {a, b}

\* What the code does not do: a score drawn from the whole range
ConfidenceFromZero == Uniform(0, ConfidenceCeiling)

\* line 209
DrawConfidence == Uniform(CONFIDENCE_THRESHOLD, ConfidenceCeiling)

\* What the code does not do: no detection at all in some runs
NumDetectionsFromZero == 0..MaxDetections

\* line 188: random.randint(1, 3)
NumDetections == 1..MaxDetections

\* What the code does not do: every class available in every iteration
AvailableAgain(classes, used) == classes

\* line 201: the classes not used yet in this image
Available(classes, used) == SelectSeq(classes, LAMBDA s : s \notin used)

\* "if location: result.update(location)", lines 286-287 and 299-300
UpdateWith(result, location) ==
    IF DOMAIN location = {} THEN result
    ELSE [k \in DOMAIN result \cup DOMAIN location |->
             IF k \in DOMAIN location THEN location[k] ELSE result[k]]

\* lines 268-287: the record of one detected species; the bounding box is
\* four numbers within the image, here "box"
DetectionResult(s, c, location, t) ==
    UpdateWith([species |-> s,
                scientific_name |-> SPECIES_DATABASE[s].scientific_name,
                confidence |-> c,
                count |-> 1,
                bounding_box |-> "box",
                weight_range |-> SPECIES_DATABASE[s].weight_range,
                height_range |-> SPECIES_DATABASE[s].height_range,
                habitat |-> SPECIES_DATABASE[s].habitat,
                conservation_status |->
                    SPECIES_DATABASE[s].conservation_status,
                description |-> SPECIES_DATABASE[s].description,
                detected_at |-> t],
               location)

\* lines 292-301
NoDetectionResult(location, t) ==
    UpdateWith([species |-> "No wildlife detected",
                confidence |-> 0,
                count |-> 0,
                bounding_box |-> "null",
                detected_at |-> t],
               location)

\* lines 199-289: the lists the loop can build in k more iterations, with
\* the species in used taken and the records acc appended so far
RECURSIVE DetectionLoop(_, _, _, _, _, _)
DetectionLoop(classes, k, used, acc, location, t) ==
    LET available_species == Available(classes, used) IN
    IF k = 0 \/ Len(available_species) = 0 THEN {acc}
    ELSE UNION
           { DetectionLoop(classes, k - 1,
                           used \cup {available_species[j]},
                           Append(acc,
                                  DetectionResult(available_species[j], c,
                                                  location, t)),
                           location, t) :
               j \in 1..Len(available_species), c \in DrawConfidence }

\* detect_species, lines 164-307: the detection results a run can return,
\* at location and in the second t of the clock, with the species classes
\* the model draws from
DetectSpecies(classes, location, t) ==
    UNION
      { { IF rs = <<>> THEN <<NoDetectionResult(location, t)>> ELSE rs :
            rs \in DetectionLoop(classes, n, {}, <<>>, location, t) } :
          n \in NumDetections }

YellowstoneCentral ==
    [latitude |-> "44.4280", longitude |-> "-110.5885",
     location_name |-> "Yellowstone Central"]

\* The Detect Species handler, app.py lines 197-217: the id, the time, the
\* uploaded file's name and the location selected in the sidebar, which is
\* always one of get_sample_locations.  The runs of a session carry one id
\* here.
AppRun(p) ==
    IF p = 1
    THEN [detection_id |-> "d1", timestamp |-> "2025-01-01 10:00:00",
          image_name |-> "a.jpg", location |-> YellowstoneNorth]
    ELSE [detection_id |-> "d2", timestamp |-> "2025-01-02 09:00:00",
          image_name |-> "b.jpg", location |-> YellowstoneCentral]

-----------------------------------------------------------------------------
(* Sessions                                                                *)

PyTrue == [py |-> "True", items |-> <<>>, d |-> EmptyDict]
PyFalse == [py |-> "False", items |-> <<>>, d |-> EmptyDict]

NoDoc == <<>>

InitSessions ==
    /\ pc = [p \in Sessions |-> "idle"]
    /\ op = [p \in Sessions |-> ""]
    /\ call = [p \in Sessions |-> NoCall]
    /\ results = [p \in Sessions |-> <<>>]
    /\ loaded = [p \in Sessions |-> PyNone]
    /\ history = [p \in Sessions |-> PyNone]
    /\ ret = [p \in Sessions |-> PyNone]
    /\ exc = [p \in Sessions |-> ""]
    /\ atCall = [p \in Sessions |-> Absent]
    /\ writing = [p \in Sessions |-> NoDoc]
    /\ order = <<>>
    \* app.py lines 70-71: no history held yet
    /\ cached = [p \in Sessions |-> PyNone]

\* no export has been written; the clock stands at its first second
NoFiles == [x \in {} |-> x]
InitFiles == files = NoFiles /\ now = 0

Init ==
    /\ store = Absent
    /\ written = FALSE
    /\ InitSessions
    /\ InitFiles

\* The session calls a function of the data manager.
Enter(p, f) ==
    /\ pc[p] = "idle"
    /\ op' = [op EXCEPT ![p] = f]
    /\ atCall' = [atCall EXCEPT ![p] = store]

\* An exception leaves the function: its arguments and locals are gone.
Raise(p, e) ==
    /\ pc' = [pc EXCEPT ![p] = "raised"]
    /\ exc' = [exc EXCEPT ![p] = e]
    /\ call' = [call EXCEPT ![p] = NoCall]
    /\ results' = [results EXCEPT ![p] = <<>>]
    /\ loaded' = [loaded EXCEPT ![p] = PyNone]
    /\ history' = [history EXCEPT ![p] = PyNone]

\* What the code does not do: the new entries put in front of the loaded
\* history
AppendAllInFront(h, es) == PyList(es \o h.items)

\* history.append(entry) for each entry, line 56
AppendAll(h, es) == PyList(h.items \o es)

\* What the code does not do: the entries built before the record that
\* raises written to the file
PrefixStoredWhenLoopRaises(o, c, rs) ==
    IF o.val.py = "list" /\ ~EntryRaises(rs[1])
    THEN [o.store EXCEPT
             !.exists = TRUE,
             !.content = JsonDump(AppendAll(o.val, <<Entry(c, rs[1])>>))]
    ELSE o.store

\* lines 26-56: the loop works on the list in memory; when it raises, the
\* file is as the load left it
StoreWhenLoopRaises(o, c, rs) == o.store

\* save_detection_results, lines 22-56: load the history and append one
\* entry per result.  result["species"] of the first record is evaluated
\* before the first history.append.
SaveLoad(p, calls, batches) ==
    /\ Enter(p, "save")
    /\ \E c \in calls, rs \in batches, o \in LoadOutcomes(store) :
         /\ Len(o.val.items) + Len(rs) <= MaxLog
         /\ store' = IF o.err = "" /\ BatchRaises(rs)
                     THEN StoreWhenLoopRaises(o, c, rs)
                     ELSE o.store
         /\ IF o.err # ""
            THEN Raise(p, o.err)
            ELSE IF Len(rs) > 0 /\ EntryRaises(rs[1])
            THEN Raise(p, "KeyError")
            ELSE IF Len(rs) > 0 /\ o.val.py # "list"
            THEN Raise(p, "AttributeError")
            ELSE IF BatchRaises(rs)
            THEN Raise(p, "KeyError")
            ELSE /\ call' = [call EXCEPT ![p] = c]
                 /\ results' = [results EXCEPT ![p] = rs]
                 /\ loaded' = [loaded EXCEPT ![p] = o.val]
                 /\ history' =
                      [history EXCEPT ![p] =
                          IF Len(rs) = 0 THEN o.val
                          ELSE AppendAll(o.val, Entries(c, rs))]
                 /\ pc' = [pc EXCEPT ![p] = "save_open"]
                 /\ UNCHANGED exc
    /\ order' = Append(order, <<p, "load">>)
    /\ UNCHANGED <<ret, writing, written>>
    /\ UNCHANGED <<files, now, cached>>

\* What the code does not do: a handler around lines 59-60 that swallows
\* the exception
SaveSwallowsWriteError(p) ==
    /\ pc' = [pc EXCEPT ![p] = "save_done"]
    /\ UNCHANGED <<locals, exc>>

\* What save_detection_results does with an exception of lines 59-60: there
\* is no handler, it leaves the function.
SaveOnWriteError(p) == Raise(p, "IOError")

\* line 59: open(HISTORY_FILE, 'w') truncates the file, or fails
SaveOpen(p) ==
    /\ pc[p] = "save_open"
    /\ UNCHANGED <<op, ret, atCall>>
    /\ \/ /\ store.perm \/ ~store.exists
          /\ store' = OpenTruncate(store)
          /\ written' = TRUE
          /\ writing' = [writing EXCEPT ![p] = JsonDump(history[p])]
          /\ pc' = [pc EXCEPT ![p] = "save_dump"]
          /\ order' = Append(order, <<p, "open">>)
          /\ UNCHANGED <<locals, exc>>
       \/ /\ SaveOnWriteError(p)
          /\ UNCHANGED <<store, writing, written, order>>
    /\ UNCHANGED <<files, now, cached>>

\* line 60: json.dump(history, f, indent=2) and the close of the file.  The
\* handle writes from offset 0 whatever the file holds by now.
SaveDump(p) ==
    /\ pc[p] = "save_dump"
    /\ store' = [store EXCEPT
                    !.content = Overlay(JsonDump(history[p]), store.content)]
    /\ pc' = [pc EXCEPT ![p] = "save_done"]
    /\ order' = Append(order, <<p, "dump">>)
    /\ UNCHANGED <<op, locals, ret, exc, atCall, writing, written>>
    /\ UNCHANGED <<files, now, cached>>

\* line 60 failing (disk full): some of the chunks are in the file.  Only a
\* failing write into the file this handle truncated is modelled.
SaveDumpFails(p) ==
    /\ pc[p] = "save_dump"
    /\ store.content = <<>>
    /\ \E t \in TornPrefixes(JsonDump(history[p])) :
         store' = [store EXCEPT !.content = t]
    /\ SaveOnWriteError(p)
    /\ UNCHANGED <<op, ret, atCall, writing, written, order>>
    /\ UNCHANGED <<files, now, cached>>

\* load_detection_history called by the session
Load(p) ==
    /\ Enter(p, "load")
    /\ \E o \in LoadOutcomes(store) :
         /\ store' = o.store
         /\ IF o.err # ""
            THEN Raise(p, o.err) /\ UNCHANGED ret
            ELSE /\ ret' = [ret EXCEPT ![p] = o.val]
                 /\ pc' = [pc EXCEPT ![p] = "load_done"]
                 /\ UNCHANGED <<locals, exc>>
    /\ UNCHANGED <<writing, written, order>>
    /\ UNCHANGED <<files, now, cached>>

\* What the code does not do: True whatever happened
ClearAlwaysTrue(w) == PyTrue

\* clear_detection_history, lines 185-191: the bare except turns every
\* failure into False.
ClearResult(w) == IF w.err = "" THEN PyTrue ELSE PyFalse

Clear(p) ==
    /\ Enter(p, "clear")
    /\ \E w \in WriteOutcomes(store, PyList(<<>>)) :
         /\ store' = w.store
         /\ ret' = [ret EXCEPT ![p] = ClearResult(w)]
    /\ pc' = [pc EXCEPT ![p] = "clear_done"]
    /\ written' = TRUE
    /\ UNCHANGED <<locals, exc, writing, order>>
    /\ UNCHANGED <<files, now, cached>>

\* get_species_summary, lines 89-105.  pd.DataFrame of a dict of scalars
\* raises ValueError.
GetSpeciesSummary(p) ==
    /\ Enter(p, "species_summary")
    /\ \E o \in LoadOutcomes(store) :
         /\ store' = o.store
         /\ IF o.err # ""
            THEN Raise(p, o.err) /\ UNCHANGED ret
            ELSE IF Truthy(o.val) /\ o.val.py # "list"
            THEN Raise(p, "ValueError") /\ UNCHANGED ret
            ELSE /\ ret' = [ret EXCEPT ![p] =
                              IF ~Truthy(o.val) THEN PyFrame(<<>>)
                              ELSE PyFrame(SpeciesSummary(o.val.items))]
                 /\ loaded' = [loaded EXCEPT ![p] = o.val]
                 /\ pc' = [pc EXCEPT ![p] = "summary_done"]
                 /\ UNCHANGED <<call, results, history, exc>>
    /\ UNCHANGED <<writing, written, order>>
    /\ UNCHANGED <<files, now, cached>>

\* The function has returned or raised; the session is free again.
Return(p) ==
    /\ pc[p] \in {"save_done", "load_done", "clear_done", "summary_done",
                  "location_done", "analysis_done", "timeline_done",
                  "export_done", "reloaded", "rendered", "detect_done",
                  "raised"}
    /\ pc' = [pc EXCEPT ![p] = "idle"]
    /\ op' = [op EXCEPT ![p] = ""]
    /\ call' = [call EXCEPT ![p] = NoCall]
    /\ results' = [results EXCEPT ![p] = <<>>]
    /\ loaded' = [loaded EXCEPT ![p] = PyNone]
    /\ history' = [history EXCEPT ![p] = PyNone]
    /\ ret' = [ret EXCEPT ![p] = PyNone]
    /\ exc' = [exc EXCEPT ![p] = ""]
    /\ atCall' = [atCall EXCEPT ![p] = Absent]
    /\ writing' = [writing EXCEPT ![p] = NoDoc]
    /\ order' = SelectSeq(order, LAMBDA x : x[1] # p)
    /\ UNCHANGED <<store, written>>
    /\ UNCHANGED <<files, now, cached>>

\* get_location_summary, lines 114-129
GetLocationSummary(p) ==
    /\ Enter(p, "location_summary")
    /\ \E o \in LoadOutcomes(store) :
         /\ store' = o.store
         /\ IF o.err # ""
            THEN Raise(p, o.err) /\ UNCHANGED ret
            ELSE IF Truthy(o.val) /\ o.val.py # "list"
            THEN Raise(p, "ValueError") /\ UNCHANGED ret
            ELSE /\ ret' = [ret EXCEPT ![p] =
                              IF ~Truthy(o.val) THEN PyFrame(<<>>)
                              ELSE PyFrame(LocationSummary(o.val.items))]
                 /\ loaded' = [loaded EXCEPT ![p] = o.val]
                 /\ pc' = [pc EXCEPT ![p] = "location_done"]
                 /\ UNCHANGED <<call, results, history, exc>>
    /\ UNCHANGED <<writing, written, order, files, now, cached>>

\* app.py lines 296-297 and 347-348: the history the session holds, or,
\* "if not st.session_state.detection_history", what a load returns
SessionHistory(p) ==
    IF Truthy(cached[p])
    THEN {[store |-> store, err |-> "", val |-> cached[p]]}
    ELSE LoadOutcomes(store)

\* Reports page, Location Analysis, app.py lines 346-354 and 398-406: the
\* history of the session, loaded if the session holds none; with none
\* there is no report, else the frame is built and the report rendered.
ReportsLocation(p) ==
    /\ Enter(p, "location_analysis")
    /\ \E o \in SessionHistory(p) :
         /\ store' = o.store
         /\ IF o.err # ""
            THEN Raise(p, o.err) /\ UNCHANGED <<ret, cached>>
            ELSE /\ cached' = [cached EXCEPT ![p] = o.val]
                 /\ IF Truthy(o.val) /\ o.val.py # "list"
                    THEN Raise(p, "ValueError") /\ UNCHANGED ret
                    ELSE /\ ret' = [ret EXCEPT ![p] =
                                      IF ~Truthy(o.val) THEN PyNone
                                      ELSE PyFrame(ReportLocationAnalysis(o.val.items))]
                         /\ loaded' = [loaded EXCEPT ![p] = o.val]
                         /\ pc' = [pc EXCEPT ![p] = "analysis_done"]
                         /\ UNCHANGED <<call, results, history, exc>>
    /\ UNCHANGED <<writing, written, order, files, now>>

\* Reports page, Detection Timeline, app.py lines 346-354 and 438-450: the
\* history of the session, loaded if the session holds none; with none
\* there is no report, else the frame is built and the report rendered.
ReportsTimeline(p) ==
    /\ Enter(p, "timeline")
    /\ \E o \in SessionHistory(p) :
         /\ store' = o.store
         /\ IF o.err # ""
            THEN Raise(p, o.err) /\ UNCHANGED <<ret, cached>>
            ELSE /\ cached' = [cached EXCEPT ![p] = o.val]
                 /\ IF Truthy(o.val) /\ o.val.py # "list"
                    THEN Raise(p, "ValueError") /\ UNCHANGED ret
                    ELSE /\ ret' = [ret EXCEPT ![p] =
                                      IF ~Truthy(o.val) THEN PyNone
                                      ELSE PyFrame(ReportTimeline(o.val.items))]
                         /\ loaded' = [loaded EXCEPT ![p] = o.val]
                         /\ pc' = [pc EXCEPT ![p] = "timeline_done"]
                         /\ UNCHANGED <<call, results, history, exc>>
    /\ UNCHANGED <<writing, written, order, files, now>>

\* export_detection_data, lines 143-176, with arguments a, while the data
\* directory holds fewer than room export files
ExportDetectionData(p, exportArgs, room) ==
    /\ Enter(p, "export")
    /\ Cardinality(DOMAIN files) < room
    /\ \E a \in exportArgs, o \in LoadOutcomes(store) :
         /\ store' = o.store
         /\ IF o.err # ""
            THEN Raise(p, o.err) /\ UNCHANGED <<ret, files>>
            ELSE IF Truthy(o.val) /\ o.val.py # "list"
            THEN Raise(p, "ValueError") /\ UNCHANGED <<ret, files>>
            ELSE IF ExportReturnsNone(o.val)
            THEN /\ ret' = [ret EXCEPT ![p] = PyNone]
                 /\ call' = [call EXCEPT ![p] = a]
                 /\ loaded' = [loaded EXCEPT ![p] = o.val]
                 /\ pc' = [pc EXCEPT ![p] = "export_done"]
                 /\ UNCHANGED <<results, history, exc, files>>
            ELSE LET path == ExportPath(a, now) IN
                 \/ /\ files' = (path :> ExportContent(a, o.val.items))
                                   @@ files
                    /\ ret' = [ret EXCEPT ![p] = PyStr(path)]
                    /\ call' = [call EXCEPT ![p] = a]
                    /\ loaded' = [loaded EXCEPT ![p] = o.val]
                    /\ pc' = [pc EXCEPT ![p] = "export_done"]
                    /\ UNCHANGED <<results, history, exc>>
                 \/ /\ Raise(p, "IOError")
                    /\ UNCHANGED <<ret, files>>
    /\ UNCHANGED <<writing, written, order, now, cached>>

-----------------------------------------------------------------------------
(* The file changed from outside the application.                          *)

ForeignContents ==
    { <<>>,
      <<TokObj([note |-> "x"])>>,
      <<TokNull>>,
      <<TokBytes>>,
      <<TokOpen, TokObj([note |-> "x"])>> }

Idle == \A p \in Sessions : pc[p] = "idle"

\* the file replaced by something this application did not write
Tamper ==
    /\ Idle
    /\ \E c \in ForeignContents : store' = File(c)
    /\ written' = TRUE
    /\ UNCHANGED <<pc, op, locals, ret, exc, atCall, writing, order>>
    /\ UNCHANGED <<files, now, cached>>

\* the permission to open the file taken away or given back
Chmod ==
    /\ Idle
    /\ store.exists
    /\ store' = [store EXCEPT !.perm = ~store.perm]
    /\ UNCHANGED <<pc, op, locals, ret, exc, atCall, writing, written, order>>
    /\ UNCHANGED <<files, now, cached>>

-----------------------------------------------------------------------------
(* One user, one request at a time (the application as deployed).          *)

Next ==
    \/ \E p \in {1} :
          \/ SaveLoad(p, Calls, Batches)
          \/ SaveOpen(p)
          \/ SaveDump(p)
          \/ SaveDumpFails(p)
          \/ Load(p)
          \/ Clear(p)
          \/ GetSpeciesSummary(p)
          \/ Return(p)
    \/ Tamper
    \/ Chmod

Spec == Init /\ [][Next]_vars

-----------------------------------------------------------------------------
(* Two users submit a detection at the same time: each Streamlit session   *)
(* runs the handler on a thread of its own, against the one history file.  *)

\* the file as load_detection_history creates it, lines 71-72
EmptyLogFile == File(JsonDump(PyList(<<>>)))

\* the run of each session has a detection id (uuid4) of its own
CallOf(p) ==
    CHOOSE c \in Calls : c.detection_id = (IF p = 1 THEN "d1" ELSE "d2")

\* what detect_species hands over: one to three records
RaceRecords == {RedFoxFull, RedFoxBare}
RaceBatches == UNION {[1..n -> RaceRecords] : n \in 1..MaxDetections}

\* an event stored by an earlier run
EarlierCall ==
    [detection_id |-> "d0", timestamp |-> "2024-12-31 08:00:00",
     image_name |-> "z.jpg", location |-> YellowstoneNorth]
EarlierLog == PyList(<<Entry(EarlierCall, Coyote)>>)

InitRace ==
    /\ store \in {Absent, EmptyLogFile, File(JsonDump(EarlierLog))}
    /\ written = (store = File(JsonDump(EarlierLog)))
    /\ InitSessions
    /\ InitFiles

NextRace ==
    \E p \in Sessions :
        \/ SaveLoad(p, {CallOf(p)}, RaceBatches)
        \/ SaveOpen(p)
        \/ SaveDump(p)
        \/ SaveDumpFails(p)

SpecRace == InitRace /\ [][NextRace]_vars

-----------------------------------------------------------------------------
(* The summaries and reports over a history that earlier runs stored.      *)

Run(id, ts, img, loc) ==
    [detection_id |-> id, timestamp |-> ts, image_name |-> img,
     location |-> loc]

\* the site of Yellowstone North after the camera was moved
Resurveyed ==
    [latitude |-> "44.4280", longitude |-> "-110.5989",
     location_name |-> "Yellowstone North"]

\* Two runs at one site on one day, a run at a site without coordinates,
\* a run at the moved site and a run at the first site without its name.
FirstRun == Run("d1", "2025-01-01 10:00:00", "a.jpg", YellowstoneNorth)
LateRun == Run("d4", "2025-01-01 23:59:59", "b.jpg", YellowstoneNorth)
UnlocatedRun == Run("d2", "2025-01-02 09:00:00", "b.jpg", NameOnly)
MovedRun == Run("d3", "2025-01-02 00:00:00", "c.jpg", Resurveyed)
\* a run whose location dict carries the coordinates of Yellowstone North
\* and no name: the name stored is "Unknown"
CoordinatesOnly == [latitude |-> "44.9631", longitude |-> "-110.5989"]
UnnamedRun == Run("d5", "2025-01-02 09:00:00", "c.jpg", CoordinatesOnly)

\* the events these runs stored
ReportEvents ==
    { Entry(FirstRun, RedFoxFull), Entry(FirstRun, Coyote),
      Entry(LateRun, RedFoxBare),
      Entry(UnlocatedRun, Coyote), Entry(UnlocatedRun, NoDetection),
      Entry(MovedRun, RedFoxFull), Entry(MovedRun, NoDetection),
      Entry(UnnamedRun, Coyote) }
ReportLogs == UNION {[1..n -> ReportEvents] : n \in 0..MaxLog}

\* a file json.dump was interrupted in, and a file that holds a dict
TornFile == File(<<TokOpen>>)
DictFile == File(<<TokObj([note |-> "x"])>>)

ReportStores ==
    {Absent, TornFile, DictFile}
        \cup {File(JsonDump(PyList(h))) : h \in ReportLogs}

InitReports ==
    /\ store \in ReportStores
    /\ written = store.exists
    /\ InitSessions
    /\ InitFiles

NextReports ==
    \E p \in {1} :
        \/ GetSpeciesSummary(p)
        \/ GetLocationSummary(p)
        \/ ReportsLocation(p)
        \/ ReportsTimeline(p)
        \/ Return(p)

SpecReports == InitReports /\ [][NextReports]_vars

-----------------------------------------------------------------------------
(* Exports of a history, one after the other, while the clock runs.        *)

\* Bounds of the model: seconds the clock advances, export files the
\* data directory has room for.
MaxClock == 1
MaxExports == 2

\* Four runs: before the 15th, on it at midnight and at 10:00, after it.
ExportHistory ==
    << Entry(Run("d1", "2025-01-01 10:00:00", "a.jpg", YellowstoneNorth),
             RedFoxFull),
       Entry(Run("d2", "2025-01-15 00:00:00", "b.jpg", YellowstoneNorth),
             Coyote),
       Entry(Run("d3", "2025-01-15 10:00:00", "c.jpg", NameOnly),
             RedFoxBare),
       Entry(Run("d4", "2025-02-01 08:00:00", "d.jpg", YellowstoneNorth),
             NoDetection) >>

\* what the store held after each of the runs
ExportLogs ==
    {SubSeq(ExportHistory, 1, n) :
        n \in 0..(IF Len(ExportHistory) < MaxLog THEN Len(ExportHistory)
                  ELSE MaxLog)}

ExportStores ==
    {Absent, TornFile} \cup {File(JsonDump(PyList(h))) : h \in ExportLogs}

ExportArgs ==
    [start_date : {NoDate, PyDate(20250115)},
     end_date : {NoDate, PyDate(20250115), PyDatetime(20250115, 235959)},
     format : {"csv", "json"}]

InitExport ==
    /\ store \in ExportStores
    /\ written = store.exists
    /\ InitSessions
    /\ InitFiles

\* a second passes
Tick ==
    /\ now < MaxClock
    /\ now' = now + 1
    /\ UNCHANGED <<store, pc, op, locals, ret, exc, atCall, writing, written,
                   order, files, cached>>

NextExport ==
    \/ \E p \in {1} :
          \/ ExportDetectionData(p, ExportArgs, MaxExports)
          \/ GetSpeciesSummary(p)
          \/ GetLocationSummary(p)
          \/ Return(p)
    \/ Tick

SpecExport == InitExport /\ [][NextExport]_vars

-----------------------------------------------------------------------------
(* The Upload & Detect page: every record stored comes from a run of the   *)
(* detector.                                                               *)

\* app.py lines 197-217: "Detect Species" runs the detector and calls
\* save_detection_results with its results and the selected location
DetectSpeciesClicked(p) ==
    SaveLoad(p, {AppRun(p)},
             DetectSpecies(FirstClasses(MaxStoredClasses),
                           AppRun(p).location, AppRun(p).timestamp))

\* app.py line 220: the history is loaded again once the save has returned
ReloadHistory(p) ==
    /\ pc[p] = "save_done"
    /\ \E o \in LoadOutcomes(store) :
         /\ store' = o.store
         /\ IF o.err # ""
            THEN Raise(p, o.err) /\ UNCHANGED cached
            ELSE /\ cached' = [cached EXCEPT ![p] = o.val]
                 /\ pc' = [pc EXCEPT ![p] = "reloaded"]
                 /\ UNCHANGED <<locals, exc>>
    /\ UNCHANGED <<op, ret, atCall, writing, written, order, files, now>>

\* the script run of the page is over (or has stopped at an exception)
RunEnds(p) ==
    /\ pc[p] \in {"reloaded", "rendered", "raised"}
    /\ Return(p)

InitDetect ==
    /\ store \in {Absent, EmptyLogFile}
    /\ written = FALSE
    /\ InitSessions
    /\ InitFiles

NextDetect ==
    \E p \in {1} :
        \/ DetectSpeciesClicked(p)
        \/ SaveOpen(p)
        \/ SaveDump(p)
        \/ SaveDumpFails(p)
        \/ ReloadHistory(p)
        \/ RunEnds(p)

SpecDetect == InitDetect /\ [][NextDetect]_vars

-----------------------------------------------------------------------------
(* The pages of one browser session after the other, while the history     *)
(* file also changes from outside the session: another session stores a    *)
(* detection, or the history is cleared.  One script run at a time.        *)

\* The Data Dashboard or the Reports page is opened, app.py lines 295-300
\* and 346-351: the history of the session, loaded "if not already loaded",
\* is what the page shows.
RenderPage(p) ==
    /\ Enter(p, "render")
    /\ \E o \in SessionHistory(p) :
         /\ store' = o.store
         /\ IF o.err # ""
            THEN Raise(p, o.err) /\ UNCHANGED <<ret, cached>>
            ELSE /\ cached' = [cached EXCEPT ![p] = o.val]
                 /\ ret' = [ret EXCEPT ![p] = o.val]
                 /\ pc' = [pc EXCEPT ![p] = "rendered"]
                 /\ UNCHANGED <<locals, exc>>
    /\ UNCHANGED <<writing, written, order, files, now>>

\* clear_detection_history, lines 185-191, called while no page runs
ClearedOutside ==
    /\ \E w \in WriteOutcomes(store, PyList(<<>>)) : store' = w.store
    /\ written' = TRUE
    /\ UNCHANGED <<pc, op, locals, ret, exc, atCall, writing, order, files,
                   now, cached>>

\* Another browser session runs the Detect Species handler from its start
\* to its end (app.py lines 195-220) while no page of this session runs:
\* the history is loaded, the entries are appended, the file is written.
StoredOutside(q) ==
    \E rs \in DetectSpecies(FirstClasses(MaxStoredClasses),
                            AppRun(q).location, AppRun(q).timestamp),
       o \in LoadOutcomes(store) :
        /\ o.err = ""
        /\ o.val.py = "list"
        /\ Len(o.val.items) + Len(rs) <= MaxLog
        /\ \E w \in WriteOutcomes(o.store,
                                  AppendAll(o.val, Entries(AppRun(q), rs))) :
              store' = w.store
        /\ written' = TRUE
        /\ UNCHANGED <<pc, op, locals, ret, exc, atCall, writing, order,
                       files, now, cached>>

InitSession ==
    /\ store \in {Absent, EmptyLogFile}
    /\ written = FALSE
    /\ InitSessions
    /\ InitFiles

NextSession ==
    \/ \E p \in {1} :
          \/ DetectSpeciesClicked(p)
          \/ SaveOpen(p)
          \/ SaveDump(p)
          \/ ReloadHistory(p)
          \/ RenderPage(p)
          \/ RunEnds(p)
    \/ pc[1] = "idle" /\ ClearedOutside
    \/ pc[1] = "idle" /\ StoredOutside(2)

SpecSession == InitSession /\ [][NextSession]_vars

-----------------------------------------------------------------------------
(* Runs of the detector on its own.                                        *)

\* the location argument: none, or a dictionary with the coordinates, or
\* one of get_sample_locations
NoLocation == [x \in {} |-> x]
DetectorLocations == {NoLocation, CoordinatesOnly, YellowstoneNorth}

\* detect_species(model, image, location) called and returned
Detect(p) ==
    /\ Enter(p, "detect")
    /\ \E location \in DetectorLocations :
         \E rs \in DetectSpecies(FirstClasses(MaxClasses), location,
                                 "2025-01-01 10:00:00") :
            ret' = [ret EXCEPT ![p] = PyList(rs)]
    /\ pc' = [pc EXCEPT ![p] = "detect_done"]
    /\ UNCHANGED <<store, locals, exc, writing, written, order, files, now,
                   cached>>

InitDetector ==
    /\ store = Absent
    /\ written = FALSE
    /\ InitSessions
    /\ InitFiles

NextDetector == \E p \in {1} : Detect(p) \/ Return(p)

SpecDetector == InitDetector /\ [][NextDetector]_vars

-----------------------------------------------------------------------------
(* Properties                                                              *)

\* What a load of the file returns (None when it raises).
LoadValue(st) ==
    IF ~st.exists THEN PyList(<<>>)
    ELSE (CHOOSE o \in LoadExisting(st) : TRUE).val

\* The log of the store: the events a load returns.
LogOf(st) == LoadValue(st).items

IsPrefix(s, t) == Len(s) <= Len(t) /\ SubSeq(t, 1, Len(s)) = s

Done == {"save_done", "load_done", "clear_done", "summary_done"}

\* The event stored for record r of a run with arguments c.
EventOf(e, c, r) ==
    /\ e.detection_id = c.detection_id
    /\ e.timestamp = c.timestamp
    /\ e.image_name = c.image_name
    /\ e.species = r.species
    /\ e.confidence = r.confidence
    /\ e.count = (IF "count" \in DOMAIN r THEN r.count ELSE 1)

\* C1: when an append returns, a load returns the log the store held when
\* the append was called, followed by one event per record, in input order,
\* and nothing else.
C1_RoundTrip ==
    \A p \in Sessions :
        (pc[p] = "save_done" /\ LoadValue(atCall[p]).py = "list") =>
            LET L == LogOf(atCall[p])
                out == LoadValue(store)
                rs == results[p]
            IN /\ out.py = "list"
               /\ Len(out.items) = Len(L) + Len(rs)
               /\ SubSeq(out.items, 1, Len(L)) = L
               /\ \A i \in 1..Len(rs) :
                     EventOf(out.items[Len(L) + i], call[p], rs[i])

C1_Witness ==
    \E p \in Sessions :
        /\ pc[p] = "save_done"
        /\ Len(LogOf(atCall[p])) >= 1
        /\ Len(results[p]) >= 2
        /\ results[p][1] # results[p][2]

\* C2: whatever function other than clear a session has called, when it has
\* returned or raised the log of the store at the call is a prefix of the
\* log of the store now.
C2_AppendOnly ==
    \A p \in Sessions :
        (pc[p] \in Done \cup {"raised"} /\ op[p] # "clear") =>
            IsPrefix(LogOf(atCall[p]), LogOf(store))

EventKeys ==
    {"detection_id", "timestamp", "image_name", "species", "confidence",
     "count", "latitude", "longitude", "location_name"}

\* The file can be read and holds an ordered list of event records.
IsEventLog(st) ==
    LET n == Len(st.content) IN
    /\ st.perm
    /\ n >= 2
    /\ st.content[1] = TokOpen
    /\ st.content[n] = TokClose
    /\ \A i \in 2..(n - 1) :
          st.content[i].t = "obj" /\ EventKeys \subseteq DOMAIN st.content[i].v

\* C3: a load of a file that exists and is unreadable or holds anything but
\* an ordered list of event records returns an empty list and does not
\* raise.
C3_CorruptStoreLoadsEmpty ==
    \A p \in Sessions :
        ( /\ op[p] = "load"
          /\ pc[p] \in {"load_done", "raised"}
          /\ atCall[p].exists
          /\ ~IsEventLog(atCall[p]) ) =>
            (pc[p] = "load_done" /\ ret[p] = PyList(<<>>))

\* C4: from the moment an append has opened the file, whether it then
\* completes, fails or is interrupted, a load returns the complete log
\* from before the append or the complete log with the new events.
C4_AtomicAppend ==
    \A p \in Sessions :
        ( /\ op[p] = "save"
          /\ writing[p] # NoDoc
          /\ (IsEventLog(atCall[p]) \/ ~atCall[p].exists) ) =>
            \/ LoadValue(store) = LoadValue(atCall[p])
            \/ LoadValue(store) = LoadValue(File(writing[p]))

\* C5: a load that finds no file returns [] and leaves the file in place as
\* an empty log; as long as nothing but that has written the file, every
\* load returns [] and leaves the file as it found it.
C5_InitIdempotent ==
    \A p \in Sessions :
        (op[p] = "load" /\ pc[p] = "load_done") =>
            /\ ~atCall[p].exists =>
                  (ret[p] = PyList(<<>>) /\ store = EmptyLogFile)
            /\ ~written =>
                  /\ ret[p] = PyList(<<>>)
                  /\ atCall[p].exists => store = atCall[p]

C5_Witness ==
    \E p \in Sessions :
        /\ op[p] = "load"
        /\ pc[p] = "load_done"
        /\ ~written
        /\ atCall[p] = EmptyLogFile

\* C6: when clear returns True, the file exists and a load of it returns []
\* without raising, whatever the file was before.
C6_ClearThenLoad ==
    \A p \in Sessions :
        (pc[p] = "clear_done" /\ ret[p] = PyTrue) =>
            /\ store.exists
            /\ \A o \in LoadOutcomes(store) :
                  o.err = "" /\ o.val = PyList(<<>>) /\ o.store = store

C6_Witness ==
    \E p \in Sessions :
        /\ pc[p] = "clear_done"
        /\ ret[p] = PyTrue
        /\ Len(LogOf(atCall[p])) >= 2

\* C8: an append that has returned has written its whole document; while
\* the document of an opened handle is not in the file, the append is still
\* running or has raised.
C8_WriteFailurePropagates ==
    \A p \in Sessions :
        /\ pc[p] = "save_done" =>
              (store.exists /\ store.content = JsonDump(history[p]))
        /\ (op[p] = "save" /\ writing[p] # NoDoc /\ store.content # writing[p])
              => pc[p] \in {"save_dump", "raised"}

C8_Witness ==
    \E p \in Sessions :
        /\ op[p] = "save"
        /\ pc[p] = "raised"
        /\ exc[p] = "IOError"
        /\ writing[p] # NoDoc
        /\ store.content # writing[p]

\* The position of a step of session p in the order of the steps so far
\* (0 when it has not happened).
StepAt(p, k) ==
    LET at == {i \in 1..Len(order) : order[i] = <<p, k>>}
    IN IF at = {} THEN 0 ELSE CHOOSE i \in at : TRUE

\* both sessions loaded the log before either opened the file to write
BothLoadBeforeEitherWrites ==
    \A p, q \in Sessions : StepAt(p, "load") < StepAt(q, "open")

BothAppended == \A p \in Sessions : pc[p] = "save_done"

\* the session whose rewrite was completed last
LastWriter == order[Len(order)][1]

HasEventsOf(log, p) ==
    \E i \in 1..Len(log) : log[i].detection_id = call[p].detection_id

\* C7: when both sessions have loaded the log before either writes and both
\* appends have returned, the log of the store is the document of the
\* session that wrote last: it holds that session's events and none of the
\* other's.
C7_LastRewriteWins ==
    (BothAppended /\ BothLoadBeforeEitherWrites) =>
        LET w == LastWriter
            log == LogOf(store)
        IN /\ log = history[w].items
           /\ HasEventsOf(log, w)
           /\ \A p \in Sessions \ {w} : ~HasEventsOf(log, p)

\* the two rewrites did not overlap: the file was opened for the second
\* after the first was complete
RewritesInTurn ==
    \E p, q \in Sessions :
        p # q /\ StepAt(p, "dump") < StepAt(q, "open")

\* C7, the part the code keeps: rewrites one after the other, the last
\* wins and the first session's events are lost.
C7_LastRewriteWinsInTurn ==
    (BothAppended /\ BothLoadBeforeEitherWrites /\ RewritesInTurn) =>
        LET w == LastWriter
            log == LogOf(store)
        IN /\ log = history[w].items
           /\ HasEventsOf(log, w)
           /\ \A p \in Sessions \ {w} : ~HasEventsOf(log, p)

\* C7: a lost update has happened
C7_LostUpdate ==
    /\ BothAppended
    /\ BothLoadBeforeEitherWrites
    /\ RewritesInTurn
    /\ \E p \in Sessions : ~HasEventsOf(LogOf(store), p)

SpeciesOf(h) == {h[i].species : i \in 1..Len(h)}
EventsOf(h, s) == {i \in 1..Len(h) : h[i].species = s}
CountOf(h, s) == SumOver([i \in EventsOf(h, s) |-> h[i].count], EventsOf(h, s))
ConfidenceOf(h, s) ==
    SumOver([i \in EventsOf(h, s) |-> h[i].confidence], EventsOf(h, s))

\* C9: the species summary has exactly one row per species of the log and
\* no other row; the row's count is the sum of count over the events of the
\* species and its detections the number of those events.  The Reports page
\* computes the same.
C9_SpeciesSummary ==
    \A p \in Sessions :
        pc[p] = "summary_done" =>
            LET h == LogOf(atCall[p])
                rows == ret[p].items
                rep == ReportSpeciesSummary(h)
            IN /\ \A s \in SpeciesOf(h) :
                     Cardinality({j \in 1..Len(rows) : rows[j].species = s}) = 1
               /\ \A j \in 1..Len(rows) :
                     /\ rows[j].species \in SpeciesOf(h)
                     /\ rows[j].count = CountOf(h, rows[j].species)
                     /\ rows[j].detections =
                           Cardinality(EventsOf(h, rows[j].species))
               /\ Len(rep) = Len(rows)
               /\ \A j \in 1..Len(rep) :
                     /\ rep[j].species = rows[j].species
                     /\ rep[j].total_count = CountOf(h, rep[j].species)
                     /\ rep[j].detections =
                           Cardinality(EventsOf(h, rep[j].species))

C9_Witness ==
    \E p \in Sessions :
        /\ pc[p] = "summary_done"
        /\ Len(ret[p].items) >= 2
        /\ LET h == LogOf(atCall[p]) IN
           \E i, j \in 1..Len(h) :
              /\ i # j
              /\ h[i].species = h[j].species
              /\ h[i].detection_id = h[j].detection_id

\* C10: avg_confidence of a row times the number of events of its species
\* is the sum of their confidences.
C10_UnweightedMean ==
    \A p \in Sessions :
        pc[p] = "summary_done" =>
            LET h == LogOf(atCall[p])
                rows == ret[p].items
            IN \A j \in 1..Len(rows) :
                  LET avg == rows[j].avg_confidence
                      s == rows[j].species
                  IN /\ avg[2] > 0
                     /\ avg[1] * Cardinality(EventsOf(h, s))
                          = ConfidenceOf(h, s) * avg[2]

C10_Witness ==
    \E p \in Sessions :
        /\ pc[p] = "summary_done"
        /\ LET h == LogOf(atCall[p]) IN
           \E i, j \in 1..Len(h) :
              /\ h[i].species = h[j].species
              /\ h[i].count # h[j].count
              /\ h[i].confidence # h[j].confidence

-----------------------------------------------------------------------------
(* Properties of the location summary                                      *)

RowKey(row) == <<row.location_name, row.latitude, row.longitude>>

\* the rows of the summary that stand for the group of event e
GroupsOf(rows, e) == {j \in 1..Len(rows) : RowKey(rows[j]) = LocationKey(e)}

\* C11: the location summary has one row per composite key (location_name,
\* latitude, longitude) occurring in the log and no other row: every event
\* is in exactly one group, that of its key, so two events share a group
\* exactly when their three values are equal.
C11_LocationGroups ==
    \A p \in Sessions :
        pc[p] = "location_done" =>
            LET h == LogOf(atCall[p])
                rows == ret[p].items
            IN /\ \A i \in 1..Len(h) : Cardinality(GroupsOf(rows, h[i])) = 1
               /\ \A j \in 1..Len(rows) :
                     \E i \in 1..Len(h) : RowKey(rows[j]) = LocationKey(h[i])

\* C11, the part the code keeps: the same for the events whose name and
\* coordinates are all present.
C11_LocationGroupsOfCompleteKeys ==
    \A p \in Sessions :
        pc[p] = "location_done" =>
            LET h == LogOf(atCall[p])
                rows == ret[p].items
            IN /\ \A i \in 1..Len(h) :
                     (\A x \in 1..3 : LocationKey(h[i])[x] # "null") =>
                         Cardinality(GroupsOf(rows, h[i])) = 1
               /\ \A j \in 1..Len(rows) :
                     \E i \in 1..Len(h) : RowKey(rows[j]) = LocationKey(h[i])

\* C11: two events of one name and different latitudes, in two groups
C11_SameNameTwoGroups ==
    \E p \in Sessions :
        /\ pc[p] = "location_done"
        /\ Len(ret[p].items) = 2
        /\ ret[p].items[1].location_name = ret[p].items[2].location_name
        /\ ret[p].items[1].latitude # ret[p].items[2].latitude

DistinctOf(h, I, col) == Cardinality({h[i][col] : i \in I})
SumOf(h, I, col) == SumOver([i \in I |-> h[i][col]], I)

\* the events of the group of a row of the data manager's summary, and of
\* a row of the Reports page's Location Analysis
EventsAt(h, row) == {i \in 1..Len(h) : LocationKey(h[i]) = RowKey(row)}
EventsAtCoords(h, row) ==
    {i \in 1..Len(h) : CoordKey(h[i]) = <<row.latitude, row.longitude>>}

\* C12: every group of the location summary, the data manager's and the
\* Reports page's, gives unique_species (the distinct species of its
\* events), total_detections (the sum of their count) and images_analyzed
\* (their distinct image names).
C12_LocationValues ==
    \A p \in Sessions :
        /\ pc[p] = "location_done" =>
              LET h == LogOf(atCall[p])
                  rows == ret[p].items
              IN \A j \in 1..Len(rows) :
                    LET I == EventsAt(h, rows[j]) IN
                    /\ rows[j].species_count = DistinctOf(h, I, "species")
                    /\ rows[j].total_detections = SumOf(h, I, "count")
                    /\ "images_analyzed" \in DOMAIN rows[j]
                    /\ rows[j].images_analyzed = DistinctOf(h, I, "image_name")
        /\ (pc[p] = "analysis_done" /\ ret[p] # PyNone) =>
              LET h == LogOf(atCall[p])
                  rows == ret[p].items
              IN \A j \in 1..Len(rows) :
                    LET I == EventsAtCoords(h, rows[j]) IN
                    /\ rows[j].unique_species = DistinctOf(h, I, "species")
                    /\ rows[j].total_detections = SumOf(h, I, "count")
                    /\ rows[j].images_analyzed = DistinctOf(h, I, "image_name")

\* C12 as the code has it: the data manager's summary gives the distinct
\* species (as species_count) and total_detections and nothing about
\* images; the Reports page's Location Analysis gives all three.
C12_LocationValuesComputed ==
    \A p \in Sessions :
        /\ pc[p] = "location_done" =>
              LET h == LogOf(atCall[p])
                  rows == ret[p].items
              IN \A j \in 1..Len(rows) :
                    LET I == EventsAt(h, rows[j]) IN
                    /\ rows[j].species_count = DistinctOf(h, I, "species")
                    /\ rows[j].total_detections = SumOf(h, I, "count")
                    /\ "images_analyzed" \notin DOMAIN rows[j]
        /\ (pc[p] = "analysis_done" /\ ret[p] # PyNone) =>
              LET h == LogOf(atCall[p])
                  rows == ret[p].items
              IN \A j \in 1..Len(rows) :
                    LET I == EventsAtCoords(h, rows[j]) IN
                    /\ rows[j].unique_species = DistinctOf(h, I, "species")
                    /\ rows[j].total_detections = SumOf(h, I, "count")
                    /\ rows[j].images_analyzed = DistinctOf(h, I, "image_name")

\* a group of three events, two species, two images
C12_Witness ==
    \E p \in Sessions :
        /\ pc[p] = "analysis_done"
        /\ ret[p] # PyNone
        /\ \E j \in 1..Len(ret[p].items) :
              /\ Cardinality(EventsAtCoords(LogOf(atCall[p]), ret[p].items[j]))
                    = 3
              /\ ret[p].items[j].unique_species = 2
              /\ ret[p].items[j].images_analyzed = 2

-----------------------------------------------------------------------------
(* Properties of the timeline                                              *)

\* the calendar dates (yyyymmdd) in the timestamps of a log
DatesIn(h) == {ToDatetime(h[i].timestamp).date : i \in 1..Len(h)}
EventsOn(h, d) == {i \in 1..Len(h) : ToDatetime(h[i].timestamp).date = d}

\* C13: the timeline has exactly one row per calendar date occurring in
\* the timestamps of the log, and its rows are in strictly ascending order
\* of date, in whatever order the events were stored.
C13_TimelineOrdered ==
    \A p \in Sessions :
        (pc[p] = "timeline_done" /\ ret[p] # PyNone) =>
            LET h == LogOf(atCall[p])
                rows == ret[p].items
            IN /\ {rows[j].date : j \in 1..Len(rows)} = DatesIn(h)
               /\ \A j, k \in 1..Len(rows) :
                     j < k => rows[j].date < rows[k].date

\* a log whose later date was stored first, one date with two events
C13_Witness ==
    \E p \in Sessions :
        /\ pc[p] = "timeline_done"
        /\ Len(ret[p].items) = 2
        /\ LET h == LogOf(atCall[p]) IN
           /\ Len(h) = 3
           /\ DateOf(h[1]) > DateOf(h[2])
           /\ DateOf(h[3]) = DateOf(h[1])

\* C14: in every row of the timeline, species_count is the number of
\* distinct species among the events of the row's calendar date,
\* total_detections the sum of their count and images the number of their
\* distinct image names.
C14_TimelineValues ==
    \A p \in Sessions :
        (pc[p] = "timeline_done" /\ ret[p] # PyNone) =>
            LET h == LogOf(atCall[p])
                rows == ret[p].items
            IN \A j \in 1..Len(rows) :
                  LET I == EventsOn(h, rows[j].date) IN
                  /\ I # {}
                  /\ rows[j].species_count = DistinctOf(h, I, "species")
                  /\ rows[j].total_detections = SumOf(h, I, "count")
                  /\ rows[j].images = DistinctOf(h, I, "image_name")

\* a date with three events, two species, two images
C14_Witness ==
    \E p \in Sessions :
        /\ pc[p] = "timeline_done"
        /\ ret[p] # PyNone
        /\ \E j \in 1..Len(ret[p].items) :
              /\ Cardinality(EventsOn(LogOf(atCall[p]), ret[p].items[j].date))
                    = 3
              /\ ret[p].items[j].species_count = 2
              /\ ret[p].items[j].images = 2
              /\ ret[p].items[j].total_detections = 4

-----------------------------------------------------------------------------
(* The summaries and the order of the log                                  *)

\* the logs that hold the events of h in another order
Reorderings(h) ==
    LET n == Len(h)
        P == {f \in [1..n -> 1..n] : \A i, j \in 1..n : f[i] = f[j] => i = j}
    IN {[i \in 1..n |-> h[f[i]]] : f \in P}

\* C20: the species summary, the location summary and the timeline of a
\* log are those of every permutation of the log: the same rows with the
\* same values.
C20_OrderIndependent ==
    \A p \in Sessions :
        LET h == LogOf(atCall[p]) IN
        /\ pc[p] = "summary_done" =>
              \A g \in Reorderings(h) : SpeciesSummary(g) = ret[p].items
        /\ pc[p] = "location_done" =>
              \A g \in Reorderings(h) : LocationSummary(g) = ret[p].items
        /\ (pc[p] = "analysis_done" /\ ret[p] # PyNone) =>
              \A g \in Reorderings(h) :
                  ReportLocationAnalysis(g) = ret[p].items
        /\ (pc[p] = "timeline_done" /\ ret[p] # PyNone) =>
              \A g \in Reorderings(h) : ReportTimeline(g) = ret[p].items

\* a species summary of a log of three events of two species whose
\* confidences differ
C20_Witness ==
    \E p \in Sessions :
        /\ pc[p] = "summary_done"
        /\ Len(ret[p].items) = 2
        /\ LET h == LogOf(atCall[p]) IN
           /\ Len(h) = 3
           /\ h[1].species = h[3].species
           /\ h[1].confidence # h[3].confidence
           /\ h[1].species # h[2].species

-----------------------------------------------------------------------------
(* Properties of the export                                                *)

\* The event lies within a bound as a date range reads it: a calendar date
\* bounds the calendar date of the event, a datetime bounds its instant.
FromBound(e, start) ==
    CASE start.py = "None" -> TRUE
      [] start.py = "date" -> ToDatetime(e.timestamp).date >= start.date
      [] OTHER -> AtOrAfter(ToDatetime(e.timestamp), start)
UntilBound(e, end) ==
    CASE end.py = "None" -> TRUE
      [] end.py = "date" -> ToDatetime(e.timestamp).date <= end.date
      [] OTHER -> AtOrAfter(end, ToDatetime(e.timestamp))
InRange(e, a) == FromBound(e, a.start_date) /\ UntilBound(e, a.end_date)

\* the export of session p has returned the path of the file it wrote
WroteFile(p) == pc[p] = "export_done" /\ ret[p].py = "str"
Exported(p) == files[ret[p].items[1]]

IdsOf(rows) == {rows[j].detection_id : j \in 1..Len(rows)}

\* C15: an export whose bounds are calendar dates (or omitted) writes
\* exactly the events of the log whose date d satisfies
\* start_date <= d <= end_date, whatever their time of day; an omitted
\* bound does not constrain.
C15_ExportDateRange ==
    \A p \in Sessions :
        ( /\ WroteFile(p)
          /\ call[p].start_date.py \in {"None", "date"}
          /\ call[p].end_date.py \in {"None", "date"} ) =>
            LET h == LogOf(atCall[p]) IN
            IdsOf(Exported(p).rows)
                = IdsOf(SelectSeq(h, LAMBDA e : InRange(e, call[p])))

\* C16: an export of a log that holds events, none of which lies within
\* the bounds, returns None.
C16_NoRowsNoPath ==
    \A p \in Sessions :
        LET h == LogOf(atCall[p]) IN
        ( /\ pc[p] = "export_done"
          /\ Len(h) > 0
          /\ \A i \in 1..Len(h) : ~InRange(h[i], call[p]) ) =>
            ret[p] = PyNone

\* C17: an export that writes a file writes it to a path at which no
\* earlier export of the session has written, also within one second.
C17_FreshPath ==
    [][\A p \in Sessions :
          (pc[p] = "idle" /\ pc'[p] = "export_done" /\ ret'[p].py = "str")
              => ret'[p].items[1] \notin DOMAIN files]_vars

\* the store holds an empty log: the file is absent, or a load of it
\* gives []
EmptyLog(st) == LoadValue(st) = PyList(<<>>)

\* C18: on an empty log, get_species_summary and get_location_summary
\* return an empty frame and export_detection_data returns None and writes
\* no file; none of them raises, unless the file is absent and cannot be
\* created.
C18_EmptyLog ==
    [][\A p \in Sessions :
          ( /\ pc[p] = "idle" /\ pc'[p] # "idle"
            /\ op'[p] \in {"species_summary", "location_summary", "export"}
            /\ EmptyLog(store) ) =>
              /\ pc'[p] = "raised" =>
                    ~store.exists /\ exc'[p] = "IOError"
              /\ pc'[p] # "raised" =>
                    /\ files' = files
                    /\ ret'[p] = IF op'[p] = "export" THEN PyNone
                                 ELSE PyFrame(<<>>)]_vars

\* an export of an existing, empty log has returned None and there is no
\* export file
C18_Witness ==
    \E p \in Sessions :
        /\ pc[p] = "export_done"
        /\ atCall[p].exists
        /\ atCall[p].content = JsonDump(PyList(<<>>))
        /\ ret[p] = PyNone
        /\ files = NoFiles

-----------------------------------------------------------------------------
(* Optional fields of the stored events                                    *)

\* C19: a record that has species and confidence is accepted whichever
\* optional fields it lacks, and when the append has returned, the event
\* stored for a record has an optional field exactly when the record has
\* it, with the record's value.
C19_OptionalFieldsAsSupplied ==
    /\ \A r \in ResultRecords :
          {"species", "confidence"} \subseteq DOMAIN r => ~EntryRaises(r)
    /\ \A p \in Sessions :
          (pc[p] = "save_done" /\ LoadValue(atCall[p]).py = "list") =>
              LET L == LogOf(atCall[p])
                  out == LogOf(store)
                  rs == results[p]
              IN \A i \in 1..Len(rs) : \A f \in OptionalFields :
                    /\ f \in DOMAIN out[Len(L) + i] <=> f \in DOMAIN rs[i]
                    /\ f \in DOMAIN rs[i] =>
                          out[Len(L) + i][f] = rs[i][f]

\* an append of a record without scientific_name and a record with it has
\* returned
C19_Witness ==
    \E p \in Sessions :
        /\ pc[p] = "save_done"
        /\ LoadValue(atCall[p]).py = "list"
        /\ \E i, j \in 1..Len(results[p]) :
              /\ "scientific_name" \notin DOMAIN results[p][i]
              /\ "scientific_name" \in DOMAIN results[p][j]
              /\ OptionalFields \cap DOMAIN results[p][i] = {}

-----------------------------------------------------------------------------
(* The events the application stores                                       *)

Sentinel == "No wildlife detected"

\* C21: every event of the history store whose species is not the
\* no-detection sentinel has a confidence above zero and a count of at
\* least one.
C21_StoredEventsPositive ==
    LET v == LoadValue(store) IN
    v.py = "list" =>
        \A i \in 1..Len(v.items) :
            v.items[i].species # Sentinel =>
                v.items[i].confidence > 0 /\ v.items[i].count >= 1

\* the store holds three events of detected species, two of them of one
\* species and so not of one run
C21_Witness ==
    LET v == LoadValue(store) IN
    /\ v.py = "list"
    /\ Len(v.items) = 3
    /\ v.items[1].species = v.items[3].species
    /\ \A i \in 1..3 : v.items[i].species # Sentinel
    /\ \E i \in 1..3 : v.items[i].confidence = CONFIDENCE_THRESHOLD

-----------------------------------------------------------------------------
(* The summaries and the store                                             *)

\* session p calls get_species_summary or get_location_summary in this step
CallsSummary(p) ==
    /\ pc[p] = "idle"
    /\ pc'[p] # "idle"
    /\ op'[p] \in {"species_summary", "location_summary"}

\* C22, as claimed: a call of get_species_summary or get_location_summary
\* leaves the history file exactly as it was, be it absent, valid or
\* corrupt.
C22_SummariesLeaveStore ==
    [][\A p \in Sessions : CallsSummary(p) => store' = store]_vars

\* C22, amended: a call of get_species_summary or get_location_summary
\* leaves an existing history file exactly as it was and leaves the log a
\* load returns as it was; an absent file it may create.
C22_SummariesLeaveLog ==
    [][\A p \in Sessions :
          CallsSummary(p) =>
              /\ store.exists => store' = store
              /\ LoadValue(store') = LoadValue(store)]_vars

\* a summary of a file that does not load has returned and the file is as
\* it was
C22_Witness ==
    \E p \in Sessions :
        /\ pc[p] \in {"summary_done", "location_done"}
        /\ atCall[p].exists
        /\ JsonLoad(atCall[p].content).err = "JSONDecodeError"
        /\ store = atCall[p]

-----------------------------------------------------------------------------
(* The no-detection label in the summaries                                 *)

\* the species detected among the events I of a log
DetectedAmong(h, I) == {h[i].species : i \in I} \ {Sentinel}
HasSentinel(h, I) == \E i \in I : h[i].species = Sentinel

\* C23: the no-detection label is grouped like a species: when the log
\* has events that carry it, the species summary has a row for it that
\* counts them, and every location group and every date of the timeline
\* with such an event counts the label as one more distinct species.
C23_SentinelGrouped ==
    \A p \in Sessions :
        LET h == LogOf(atCall[p])
            all == 1..Len(h)
            rows == ret[p].items
        IN /\ (pc[p] = "summary_done" /\ HasSentinel(h, all)) =>
                 \E j \in 1..Len(rows) :
                    /\ rows[j].species = Sentinel
                    /\ rows[j].detections
                          = Cardinality(EventsOf(h, Sentinel))
           /\ pc[p] = "location_done" =>
                 \A j \in 1..Len(rows) :
                    HasSentinel(h, EventsAt(h, rows[j])) =>
                       rows[j].species_count
                          = Cardinality(DetectedAmong(h, EventsAt(h, rows[j])))
                               + 1
           /\ (pc[p] = "analysis_done" /\ ret[p] # PyNone) =>
                 \A j \in 1..Len(rows) :
                    HasSentinel(h, EventsAtCoords(h, rows[j])) =>
                       rows[j].unique_species
                          = Cardinality(DetectedAmong(h,
                                            EventsAtCoords(h, rows[j]))) + 1
           /\ (pc[p] = "timeline_done" /\ ret[p] # PyNone) =>
                 \A j \in 1..Len(rows) :
                    HasSentinel(h, EventsOn(h, rows[j].date)) =>
                       rows[j].species_count
                          = Cardinality(DetectedAmong(h,
                                            EventsOn(h, rows[j].date))) + 1

\* the location summary has a group with an event of a species and an
\* event with the no-detection label, counted as two species
C23_Witness ==
    \E p \in Sessions :
        /\ pc[p] = "location_done"
        /\ \E j \in 1..Len(ret[p].items) :
              LET I == EventsAt(LogOf(atCall[p]), ret[p].items[j]) IN
              /\ HasSentinel(LogOf(atCall[p]), I)
              /\ DetectedAmong(LogOf(atCall[p]), I) # {}
              /\ ret[p].items[j].species_count = 2

-----------------------------------------------------------------------------
(* The records of a JSON export                                            *)

\* C24: the file of a JSON export holds, in stored order, one record per
\* event that passed the filter, each with exactly the fields and values
\* of the stored event.
C24_JsonExportFidelity ==
    \A p \in Sessions :
        (WroteFile(p) /\ call[p].format = "json") =>
            Exported(p).rows
                = SelectSeq(LogOf(atCall[p]),
                            LAMBDA e : /\ KeepsFrom(e, call[p].start_date)
                                       /\ KeepsUntil(e, call[p].end_date))

-----------------------------------------------------------------------------
(* An append of a batch with a malformed record                            *)

\* C25: an append whose batch has a record without species or confidence
\* raises before it opens the file for writing: only a batch without such
\* a record goes on to the write, and a call that raises at the load or in
\* the loop leaves an existing file exactly as it was and the log a load
\* returns as it was.
C25_MalformedBatchStoresNothing ==
    [][\A p \in Sessions :
          (pc[p] = "idle" /\ pc'[p] # "idle" /\ op'[p] = "save") =>
              /\ pc'[p] \in {"save_open", "raised"}
              /\ pc'[p] = "save_open" =>
                    \A i \in 1..Len(results'[p]) :
                        ~EntryRaises(results'[p][i])
              /\ pc'[p] = "raised" =>
                    /\ store.exists => store' = store
                    /\ LoadValue(store') = LoadValue(store)]_vars

\* an append to a store of events has raised KeyError and the store is as
\* it was
C25_Witness ==
    \E p \in Sessions :
        /\ pc[p] = "raised"
        /\ op[p] = "save"
        /\ exc[p] = "KeyError"
        /\ Len(LogOf(atCall[p])) > 0
        /\ store = atCall[p]

-----------------------------------------------------------------------------
(* The location groups as a partition of the log                           *)

\* C26: the location summary partitions the log, events without latitude
\* or longitude included: every event is in exactly one group, and the
\* total_detections of the groups add up to the count of all events.
C26_LocationPartition ==
    \A p \in Sessions :
        pc[p] = "location_done" =>
            LET h == LogOf(atCall[p])
                rows == ret[p].items
            IN /\ \A i \in 1..Len(h) :
                     Cardinality(GroupsOf(rows, h[i])) = 1
               /\ SumCol(rows, "total_detections") = SumCol(h, "count")

-----------------------------------------------------------------------------
(* The two location groupings                                              *)

\* C27: the Location Analysis of the Reports page and the location summary
\* of the data manager split the events of a log into the same groups,
\* with the same number of species and the same total of detections for
\* each group.
C27_ReportsAgreeWithSummary ==
    \A p \in Sessions :
        (pc[p] = "analysis_done" /\ ret[p] # PyNone) =>
            LET h == LogOf(atCall[p])
                A == ret[p].items
                B == LocationSummary(h)
            IN /\ {EventsAtCoords(h, A[j]) : j \in 1..Len(A)}
                     = {EventsAt(h, B[k]) : k \in 1..Len(B)}
               /\ \A j \in 1..Len(A), k \in 1..Len(B) :
                     EventsAtCoords(h, A[j]) = EventsAt(h, B[k]) =>
                        /\ A[j].unique_species = B[k].species_count
                        /\ A[j].total_detections = B[k].total_detections

\* C28: the history a page renders is the log the file holds when the page
\* is rendered, whatever was detected, cleared or stored by another session
\* before.
C28_RenderedIsPersisted ==
    \A p \in Sessions :
        pc[p] = "rendered" => ret[p].items = LogOf(atCall[p])

C30_LoadLeavesExistingStore ==
    \A p \in Sessions :
        (op[p] = "load" /\ pc[p] \in {"load_done", "raised"}) =>
            /\ atCall[p].exists => store = atCall[p]
            /\ store # atCall[p] =>
                  /\ ~atCall[p].exists
                  /\ pc[p] = "load_done" => store = EmptyLogFile

\* a load of a file that is no JSON document has returned, and the file is
\* as it was
C30_Witness ==
    \E p \in Sessions :
        /\ op[p] = "load"
        /\ pc[p] = "load_done"
        /\ atCall[p].exists
        /\ atCall[p].perm
        /\ JsonLoad(atCall[p].content).err = "JSONDecodeError"
        /\ store = atCall[p]

====
